---- MODULE Spec2Model ----
(***************************************************************************)
(* Game-state engine of the multi-proverb puzzle                           *)
(* (src/src/hooks/useMultiProverbGameState.ts).                            *)
(*                                                                         *)
(* The hook keeps one React state value, gameState, and every handler is a *)
(* reducer  setGameState(prev => next).  Each handler is modelled as an    *)
(* operator from the previous state (and its arguments) to the next state, *)
(* and each action of the state machine applies one handler to gameState.  *)
(*                                                                         *)
(* Strings are sequences of one-character strings; arrays are sequences    *)
(* (index k of the code is element k+1 of the sequence).                   *)
(***************************************************************************)
EXTENDS Integers, Sequences, FiniteSets, TLC

VARIABLES
    puzzleProp,      \* the puzzleData argument the host passes to the hook
    gameState,       \* the MultiProverbGameState held by useState
    fixedWordCache,  \* module-level Map cacheKey -> GlobalWord[], in insertion order
    failedValidations, \* history: validateAll calls since the load or the last reset
                       \* that judged some proverb unsolved (kept only by SpecAttempts)
    pending          \* the updaters passed to setGameState since the last render
                     \* (used only by SpecBatch)

vars == <<puzzleProp, gameState, fixedWordCache, failedValidations, pending>>

(***************************************************************************)
(* Bounds of the model.                                                    *)
(***************************************************************************)
\* longest proverb (in words) given to the initializer, over LongVocabulary
MaxWords == 10
\* longest proverb (in words) given to the initializer, over ShortVocabulary
MaxShortWords == 3

(***************************************************************************)
(* Program constants.                                                      *)
(***************************************************************************)
InitialValidationAttempts == 3
MaxCacheSize == 10

\* JavaScript null (placement, selectedPlaceholder, autoFocusTarget, puzzleData)
null == [isNull |-> TRUE]
\* JavaScript null for a word id (selectedWordId)
nullId == "null"

Min(a, b) == IF a < b THEN a ELSE b

(***************************************************************************)
(* Text.                                                                   *)
(***************************************************************************)
\* String.prototype.toLowerCase on one character
LowerChar(c) ==
    CASE c = "A" -> "a" [] c = "B" -> "b" [] c = "C" -> "c" [] c = "D" -> "d"
      [] c = "F" -> "f" [] c = "I" -> "i" [] c = "O" -> "o" [] c = "S" -> "s"
      [] c = "T" -> "t"
      [] OTHER -> c

toLowerCase(s) == [k \in 1..Len(s) |-> LowerChar(s[k])]

\* a character matched by the regular expression \s
IsSpace(c) == c = " "

\* String.prototype.split(/\s+/): cut at every maximal run of whitespace; a
\* leading or trailing run leaves an empty first or last token
RECURSIVE splitFrom(_, _, _, _)
splitFrom(s, k, cur, inRun) ==
    IF k > Len(s) THEN <<cur>>
    ELSE IF IsSpace(s[k])
         THEN IF inRun THEN splitFrom(s, k + 1, cur, TRUE)
                       ELSE <<cur>> \o splitFrom(s, k + 1, <<>>, TRUE)
         ELSE splitFrom(s, k + 1, Append(cur, s[k]), FALSE)

split(s) == splitFrom(s, 1, <<>>, FALSE)

\* Array.prototype.join(sep) on an array of strings
RECURSIVE join(_, _)
join(arr, sep) ==
    IF Len(arr) = 0 THEN <<>>
    ELSE IF Len(arr) = 1 THEN arr[1]
    ELSE arr[1] \o sep \o join(Tail(arr), sep)

\* String.prototype.trim
RECURSIVE trimStart(_)
trimStart(s) == IF Len(s) > 0 /\ IsSpace(s[1]) THEN trimStart(Tail(s)) ELSE s

RECURSIVE trimEnd(_)
trimEnd(s) ==
    IF Len(s) > 0 /\ IsSpace(s[Len(s)]) THEN trimEnd(SubSeq(s, 1, Len(s) - 1)) ELSE s

trim(s) == trimEnd(trimStart(s))

\* String.prototype.replace(/\s+/g, ' ')
RECURSIVE collapseFrom(_, _, _)
collapseFrom(s, k, inRun) ==
    IF k > Len(s) THEN <<>>
    ELSE IF IsSpace(s[k])
         THEN IF inRun THEN collapseFrom(s, k + 1, TRUE)
                       ELSE <<" ">> \o collapseFrom(s, k + 1, TRUE)
         ELSE <<s[k]>> \o collapseFrom(s, k + 1, FALSE)

collapseWhitespace(s) == collapseFrom(s, 1, FALSE)

\* variant: the comparison keeps the case of the letters
normalizeKeepingCase(s) == collapseWhitespace(trim(s))

\* the normalisation handleValidate applies to both sides of its comparison
normalize(s) == collapseWhitespace(trim(toLowerCase(s)))

\* number of words of a solution
countWordsInSolution(solution) == Len(split(solution))

(***************************************************************************)
(* Anchor selection.                                                       *)
(***************************************************************************)
skipWords ==
    { <<"a">>, <<"a", "n">>, <<"t", "h", "e">>, <<"i", "s">>, <<"t", "o">>,
      <<"o", "f">>, <<"i", "n">>, <<"o", "n">>, <<"a", "t">>, <<"i", "t">> }

\* variant: the stoplist is compared with the word as written
isGoodAnchorWordCaseSensitive(word) ==
    Len(word) > 2 /\ word \notin skipWords

isGoodAnchorWord(word) ==
    LET lowercased == toLowerCase(word)
    IN  Len(word) > 2 /\ lowercased \notin skipWords

\* positions (0-based, ascending) of the tokens that may become anchors
goodPositions(solutionWords) ==
    LET idx == SelectSeq([k \in 1..Len(solutionWords) |-> k],
                         LAMBDA k : isGoodAnchorWord(solutionWords[k]))
    IN  [j \in 1..Len(idx) |-> idx[j] - 1]

\* variant: the 5-word band boundary is off by one
targetFixedCountOffByOne(wordCount) ==
    IF wordCount <= 5 THEN 1 ELSE IF wordCount <= 9 THEN 2 ELSE 3

targetFixedCount(wordCount) ==
    IF wordCount < 5 THEN 1 ELSE IF wordCount <= 9 THEN 2 ELSE 3

numAnchors(wordCount, good) == Min(targetFixedCount(wordCount), Len(good))

\* Array.prototype.splice(k, 1) with k 0-based
spliceOut(arr, k) == SubSeq(arr, 1, k) \o SubSeq(arr, k + 2, Len(arr))

\* the selection loop: every set of positions it can end with, over every
\* value  Math.floor(Math.random() * tempGoodPositions.length)  can take
RECURSIVE selectionLoop(_, _, _, _)
selectionLoop(i, n, tempGoodPositions, selected) ==
    IF i < n /\ Len(tempGoodPositions) > 0
    THEN UNION { selectionLoop(i + 1, n,
                               spliceOut(tempGoodPositions, randomIdx),
                               selected \cup {tempGoodPositions[randomIdx + 1]})
                 : randomIdx \in 0..(Len(tempGoodPositions) - 1) }
    ELSE {selected}

selectedAnchorPositions(solution) ==
    LET solutionWords == split(solution)
        wordCount     == countWordsInSolution(solution)
        good          == goodPositions(solutionWords)
    IN  selectionLoop(0, numAnchors(wordCount, good), good, {})

\* variant: the id is made of the word index alone
wordIdWithoutProverb(proverbIndex, wordIndex) == ToString(wordIndex)

\* the id template `${proverbIndex}-${wordIndex}`
wordId(proverbIndex, wordIndex) ==
    ToString(proverbIndex) \o "-" \o ToString(wordIndex)

Placement(p, i) == [proverbIndex |-> p, positionIndex |-> i]

\* variant: anchors are created placed and locked but not marked isFixedByLength
proverbWordsUnmarked(proverbIndex, solution, anchors) ==
    LET solutionWords == split(solution)
    IN  [k \in 1..Len(solutionWords) |->
            LET wordIndex == k - 1
                isAnchor  == wordIndex \in anchors
            IN  [ id                 |-> wordId(proverbIndex, wordIndex),
                  text               |-> solutionWords[k],
                  sourceProverbIndex |-> proverbIndex,
                  originalIndex      |-> wordIndex,
                  placement          |-> IF isAnchor
                                         THEN Placement(proverbIndex, wordIndex)
                                         ELSE null,
                  isLocked           |-> isAnchor,
                  isFixedByLength    |-> FALSE ] ]

\* the GlobalWord objects of one proverb, given its chosen anchor positions
proverbWords(proverbIndex, solution, anchors) ==
    LET solutionWords == split(solution)
    IN  [k \in 1..Len(solutionWords) |->
            LET wordIndex == k - 1
                isAnchor  == wordIndex \in anchors
            IN  [ id                 |-> wordId(proverbIndex, wordIndex),
                  text               |-> solutionWords[k],
                  sourceProverbIndex |-> proverbIndex,
                  originalIndex      |-> wordIndex,
                  placement          |-> IF isAnchor
                                         THEN Placement(proverbIndex, wordIndex)
                                         ELSE null,
                  isLocked           |-> isAnchor,
                  isFixedByLength    |-> isAnchor ] ]

\* every word list a cache miss of initializeGlobalWords can compute
RECURSIVE freshGlobalWords(_, _)
freshGlobalWords(proverbs, upTo) ==
    IF upTo = 0 THEN { <<>> }
    ELSE { prefix \o proverbWords(upTo - 1, proverbs[upTo].solution, anchors)
           : prefix  \in freshGlobalWords(proverbs, upTo - 1),
             anchors \in selectedAnchorPositions(proverbs[upTo].solution) }

RECURSIVE generatePuzzleCacheKey(_)
generatePuzzleCacheKey(proverbs) ==
    IF Len(proverbs) = 0 THEN <<>>
    ELSE LET part == proverbs[1].solution \o <<"|">> \o proverbs[1].culture
         IN  IF Len(proverbs) = 1 THEN part
             ELSE part \o <<":", ":">> \o generatePuzzleCacheKey(Tail(proverbs))

cacheHas(cache, key) == \E k \in 1..Len(cache) : cache[k].key = key
cacheGet(cache, key) == cache[CHOOSE k \in 1..Len(cache) : cache[k].key = key].value

\* fixedWordCache after a miss stored allWords under key
cacheAfterSet(cache, key, allWords) ==
    LET added == Append(cache, [key |-> key, value |-> allWords])
    IN  IF Len(added) > MaxCacheSize /\ Len(added[1].key) > 0
        THEN Tail(added) ELSE added

\* initializeGlobalWords: the word lists it can return
initializeGlobalWords(data, cache) ==
    LET cacheKey == generatePuzzleCacheKey(data.proverbs)
    IN  IF cacheHas(cache, cacheKey)
        THEN { cacheGet(cache, cacheKey) }
        ELSE freshGlobalWords(data.proverbs, Len(data.proverbs))

(***************************************************************************)
(* The session state.                                                      *)
(***************************************************************************)
NoSelection(autoFocus) ==
    [ selectedWordId      |-> nullId,
      selectedPlaceholder |-> null,
      autoFocusTarget     |-> autoFocus ]

\* variant: the entries start out marked validated
ValidationMarkedValidated(data) ==
    [p \in 1..Len(data.proverbs) |-> [isSolved |-> FALSE, isValidated |-> TRUE]]

FreshValidation(data) ==
    [p \in 1..Len(data.proverbs) |-> [isSolved |-> FALSE, isValidated |-> FALSE]]

\* the useState initializer called without puzzle data
EmptyGameState ==
    [ puzzleData              |-> null,
      allWords                |-> <<>>,
      proverbValidation       |-> <<>>,
      isCompleted             |-> FALSE,
      error                   |-> null,
      usedHints               |-> {},
      wordHintsUsed           |-> <<>>,
      totalHintsUsed          |-> 0,
      validationAttempts      |-> InitialValidationAttempts,
      hasFailedGame           |-> FALSE,
      totalValidationAttempts |-> 0,
      selectionState          |-> NoSelection(null) ]

\* the state both the useState initializer and the puzzle-change effect build
LoadedGameState(data, words, autoFocus) ==
    [ puzzleData              |-> data,
      allWords                |-> words,
      proverbValidation       |-> FreshValidation(data),
      isCompleted             |-> FALSE,
      error                   |-> null,
      usedHints               |-> {},
      wordHintsUsed           |-> <<>>,
      totalHintsUsed          |-> 0,
      validationAttempts      |-> InitialValidationAttempts,
      hasFailedGame           |-> FALSE,
      totalValidationAttempts |-> 0,
      selectionState          |-> NoSelection(autoFocus) ]

isAt(word, p, pos) ==
    /\ word.placement # null
    /\ word.placement.proverbIndex = p
    /\ word.placement.positionIndex = pos

\* words.find(w => w.placement && ... === p && ... === pos) found a word
wordAtPosition(words, p, pos) == \E k \in 1..Len(words) : isAt(words[k], p, pos)

\* proverb.solution.split(/\s+/).length of proverb p (0-based)
slotCount(data, p) == Len(split(data.proverbs[p + 1].solution))

\* the scan "first empty slot" of the puzzle-change effect and of handleReset
RECURSIVE firstEmptyFrom(_, _, _, _)
firstEmptyFrom(data, words, proverbIdx, pos) ==
    IF proverbIdx >= Len(data.proverbs) THEN null
    ELSE IF pos >= slotCount(data, proverbIdx)
         THEN firstEmptyFrom(data, words, proverbIdx + 1, 0)
    ELSE IF ~wordAtPosition(words, proverbIdx, pos)
         THEN Placement(proverbIdx, pos)
    ELSE firstEmptyFrom(data, words, proverbIdx, pos + 1)

firstEmptySlot(data, words) == firstEmptyFrom(data, words, 0, 0)

\* Array.prototype.find on the word list, by id; null when absent
findWord(words, id) ==
    IF \E k \in 1..Len(words) : words[k].id = id
    THEN words[CHOOSE k \in 1..Len(words) : words[k].id = id]
    ELSE null

\* variant: the lock of the word being moved or removed is not consulted
isLockedWordIgnored(words, id) == FALSE

\* wordToMove?.isLocked
isLockedWord(words, id) ==
    LET w == findWord(words, id) IN w # null /\ w.isLocked

(***************************************************************************)
(* Placement engine.                                                       *)
(***************************************************************************)
\* variant: the validation entries are kept as they are
keptValidation(prev) == prev.proverbValidation

resetValidation(prev) ==
    [p \in 1..Len(prev.proverbValidation) |->
        [isSolved |-> FALSE, isValidated |-> FALSE]]

\* variant: a locked occupant of the target slot is displaced as well
movedWordDisplacingLocked(word, id, targetProverbIndex, targetPosition) ==
    IF word.id = id
    THEN [word EXCEPT !.placement = Placement(targetProverbIndex, targetPosition)]
    ELSE IF isAt(word, targetProverbIndex, targetPosition)
         THEN [word EXCEPT !.placement = null]
         ELSE word

\* variant: the occupant of the target slot is left where it is
movedWordKeepingOccupant(word, id, targetProverbIndex, targetPosition) ==
    IF word.id = id
    THEN [word EXCEPT !.placement = Placement(targetProverbIndex, targetPosition)]
    ELSE word

\* what the map of handleMoveWord returns for one word
movedWord(word, id, targetProverbIndex, targetPosition) ==
    IF word.id = id
    THEN [word EXCEPT !.placement = Placement(targetProverbIndex, targetPosition)]
    ELSE IF isAt(word, targetProverbIndex, targetPosition)
         THEN IF word.isLocked THEN word
              ELSE [word EXCEPT !.placement = null]
         ELSE word

handleMoveWord(prev, id, targetProverbIndex, targetPosition) ==
    IF isLockedWord(prev.allWords, id) THEN prev
    ELSE [prev EXCEPT
            !.allWords = [k \in 1..Len(prev.allWords) |->
                            movedWord(prev.allWords[k], id,
                                      targetProverbIndex, targetPosition)],
            !.proverbValidation = resetValidation(prev)]

\* variant: removal resets the validation entries, as a move does
handleRemoveWordResetting(prev, id) ==
    IF isLockedWord(prev.allWords, id) THEN prev
    ELSE [prev EXCEPT
            !.allWords =
               [k \in 1..Len(prev.allWords) |->
                  IF prev.allWords[k].id = id
                  THEN [prev.allWords[k] EXCEPT !.placement = null]
                  ELSE prev.allWords[k]],
            !.proverbValidation = resetValidation(prev)]

handleRemoveWord(prev, id) ==
    IF isLockedWord(prev.allWords, id) THEN prev
    ELSE [prev EXCEPT !.allWords =
            [k \in 1..Len(prev.allWords) |->
               IF prev.allWords[k].id = id
               THEN [prev.allWords[k] EXCEPT !.placement = null]
               ELSE prev.allWords[k]]]

(***************************************************************************)
(* Validation engine.                                                      *)
(***************************************************************************)
\* Array.prototype.sort by placement.positionIndex; the sort is stable
RECURSIVE insertByPosition(_, _)
insertByPosition(sorted, w) ==
    IF Len(sorted) = 0 THEN <<w>>
    ELSE IF sorted[Len(sorted)].placement.positionIndex <= w.placement.positionIndex
         THEN Append(sorted, w)
         ELSE Append(insertByPosition(SubSeq(sorted, 1, Len(sorted) - 1), w),
                     sorted[Len(sorted)])

RECURSIVE sortByPosition(_)
sortByPosition(ws) ==
    IF Len(ws) = 0 THEN <<>>
    ELSE insertByPosition(sortByPosition(SubSeq(ws, 1, Len(ws) - 1)), ws[Len(ws)])

\* the words placed in proverb p, in ascending position order
placedWordsOf(words, p) ==
    sortByPosition(SelectSeq(words,
        LAMBDA w : w.placement # null /\ w.placement.proverbIndex = p))

\* variant: one solved proverb is enough
some(validation) == \E p \in 1..Len(validation) : validation[p].isSolved

every(validation) == \A p \in 1..Len(validation) : validation[p].isSolved

\* variant: the game fails only once the attempts have gone below zero
hasFailedGameBelowZero(allSolved, newValidationAttempts) ==
    ~allSolved /\ newValidationAttempts < 0

\* variant: the game fails whenever the last attempt is spent
hasFailedGameWhenOutOfAttempts(allSolved, newValidationAttempts) ==
    newValidationAttempts <= 0

\* const hasFailedGame = !allSolved && newValidationAttempts <= 0
hasFailedGame(allSolved, newValidationAttempts) ==
    ~allSolved /\ newValidationAttempts <= 0

\* variant: only a failed game refuses a validation
validateRefusedOnlyWhenFailed(prev) == prev.hasFailedGame

\* variant: a validation is never refused
validateRefusedNever(prev) == FALSE

\* the early returns of handleValidate on a loaded puzzle
validateRefused(prev) == prev.hasFailedGame \/ prev.validationAttempts <= 0

handleValidate(prev) ==
    IF prev.puzzleData = null THEN prev
    ELSE IF validateRefused(prev) THEN prev
    ELSE LET newValidation ==
               [q \in 1..Len(prev.puzzleData.proverbs) |->
                  LET proverb     == prev.puzzleData.proverbs[q]
                      placed      == placedWordsOf(prev.allWords, q - 1)
                      placedWords == [k \in 1..Len(placed) |-> placed[k].text]
                      expectedWordCount == Len(split(proverb.solution))
                  IN  IF Len(placedWords) # expectedWordCount
                      THEN [isSolved |-> FALSE, isValidated |-> TRUE]
                      ELSE [isSolved |->
                               normalize(join(placedWords, <<" ">>))
                                   = normalize(proverb.solution),
                            isValidated |-> TRUE]]
             allSolved == every(newValidation)
             newValidationAttempts == prev.validationAttempts - 1
             newTotalValidationAttempts == prev.totalValidationAttempts + 1
         IN  [prev EXCEPT
                !.proverbValidation = newValidation,
                !.isCompleted = allSolved,
                !.validationAttempts = newValidationAttempts,
                !.totalValidationAttempts = newTotalValidationAttempts,
                !.hasFailedGame = hasFailedGame(allSolved, newValidationAttempts)]

\* variant: only a proverb already solved refuses its validation
validateProverbRefusedWhenSolved(prev, proverbIndex) ==
    prev.proverbValidation[proverbIndex + 1].isSolved

\* the early return "already solved or game is over" of handleValidateProverb
validateProverbRefused(prev, proverbIndex) ==
    prev.proverbValidation[proverbIndex + 1].isSolved \/ prev.hasFailedGame

\* variant: a proverb counts as incomplete only when empty or over-full
isIncompleteWhenEmpty(placedWords, solutionWords) ==
    Len(placedWords) < 1 \/ Len(placedWords) > Len(solutionWords)

\* placedWords.length !== solutionWords.length
isIncomplete(placedWords, solutionWords) ==
    Len(placedWords) # Len(solutionWords)

\* variant: validating one proverb runs the validation of the whole board
handleValidateProverbAsValidateAll(prev, proverbIndex) == handleValidate(prev)

handleValidateProverb(prev, proverbIndex) ==
    IF prev.puzzleData = null THEN prev
    ELSE IF validateProverbRefused(prev, proverbIndex) THEN prev
    ELSE LET solutionWords == split(prev.puzzleData.proverbs[proverbIndex + 1].solution)
             placedWords   == placedWordsOf(prev.allWords, proverbIndex)
         IN  IF isIncomplete(placedWords, solutionWords) THEN prev
             ELSE
             LET correctWordIds ==
                   { placedWords[k].id : k \in
                       { j \in 1..Len(placedWords) :
                           toLowerCase(placedWords[j].text)
                               = toLowerCase(solutionWords[j]) } }
                 incorrectWordIds ==
                   { placedWords[k].id : k \in
                       { j \in 1..Len(placedWords) :
                           toLowerCase(placedWords[j].text)
                               # toLowerCase(solutionWords[j]) } }
                 newWords ==
                   [k \in 1..Len(prev.allWords) |->
                      LET word == prev.allWords[k]
                      IN  IF word.id \in correctWordIds
                          THEN [word EXCEPT !.isLocked = TRUE]
                          ELSE IF word.id \in incorrectWordIds
                               THEN [word EXCEPT !.placement = null]
                               ELSE word]
                 isProverbSolved == incorrectWordIds = {}
                 newValidation ==
                   [prev.proverbValidation EXCEPT ![proverbIndex + 1] =
                       [isSolved |-> isProverbSolved, isValidated |-> TRUE]]
             IN  [prev EXCEPT !.allWords = newWords,
                              !.proverbValidation = newValidation,
                              !.isCompleted = every(newValidation)]

(***************************************************************************)
(* Reset.                                                                  *)
(***************************************************************************)
\* variant: reset takes every word off the board, locked or not
resetWordUnplacingAll(word) == [word EXCEPT !.placement = null]

\* variant: reset unlocks the words it takes off the board
resetWordUnlocking(word) ==
    IF word.isFixedByLength THEN word
    ELSE [word EXCEPT !.placement = null, !.isLocked = FALSE]

\* what the map of handleReset returns for one word
resetWord(word) ==
    IF word.isLocked THEN word ELSE [word EXCEPT !.placement = null]

handleReset(prev) ==
    IF prev.puzzleData = null THEN prev
    ELSE LET resetWords ==
               [k \in 1..Len(prev.allWords) |-> resetWord(prev.allWords[k])]
         IN  [prev EXCEPT
                !.allWords = resetWords,
                !.proverbValidation = FreshValidation(prev.puzzleData),
                !.isCompleted = FALSE,
                !.validationAttempts = InitialValidationAttempts,
                !.hasFailedGame = FALSE,
                !.totalValidationAttempts = 0,
                !.usedHints = {},
                !.wordHintsUsed = <<>>,
                !.totalHintsUsed = 0,
                !.selectionState =
                    NoSelection(firstEmptySlot(prev.puzzleData, resetWords))]

(***************************************************************************)
(* Hint engine.                                                            *)
(***************************************************************************)
\* variant: the cap is rounded up
maxHintWordsRoundedUp(totalWords) == (totalWords * 8 + 9) \div 10

\* Math.floor(totalWords * 0.8)
maxHintWords(totalWords) == (totalWords * 8) \div 10

\* variant: the count of word hints is always read as 0
wordHintsOfAlwaysZero(prev, proverbIndex) == 0

\* prev.wordHintsUsed.get(proverbIndex) || 0
wordHintsOf(prev, proverbIndex) ==
    IF proverbIndex \in DOMAIN prev.wordHintsUsed
    THEN prev.wordHintsUsed[proverbIndex] ELSE 0

\* variant: the scan stops at the first position, empty or not
targetPositionAnywhere(words, p, pos, count) ==
    IF pos >= count THEN -1 ELSE pos

\* the lowest empty position of proverb p, or -1
RECURSIVE targetPositionFrom(_, _, _, _)
targetPositionFrom(words, p, pos, count) ==
    IF pos >= count THEN -1
    ELSE IF ~wordAtPosition(words, p, pos) THEN pos
    ELSE targetPositionFrom(words, p, pos + 1, count)

\* variant: a solved proverb still takes hints
hintRefusedNever(prev, proverbIndex) == FALSE

\* the early return "already solved" of handleUseHint
hintRefused(prev, proverbIndex) ==
    prev.proverbValidation[proverbIndex + 1].isSolved

\* variant: the meaning counts as revealed from the start
meaningRevealedAlways(prev, proverbIndex) == TRUE

\* prev.usedHints.has(proverbIndex)
meaningRevealed(prev, proverbIndex) == proverbIndex \in prev.usedHints

\* variant: a word of any proverb is available for the hint
isAvailableFromAnyProverb(word, proverbIndex) ==
    word.placement = null /\ ~word.isLocked

\* the filter of availableWordsForProverb
isAvailableForProverb(word, proverbIndex) ==
    /\ word.sourceProverbIndex = proverbIndex
    /\ word.placement = null
    /\ ~word.isLocked

handleUseHint(prev, proverbIndex) ==
    IF prev.puzzleData = null THEN prev
    ELSE IF hintRefused(prev, proverbIndex) THEN prev
    ELSE
    LET solutionWords == split(prev.puzzleData.proverbs[proverbIndex + 1].solution)
        totalWords    == Len(solutionWords)
    IN  IF ~meaningRevealed(prev, proverbIndex)
        THEN [prev EXCEPT !.usedHints = prev.usedHints \cup {proverbIndex},
                          !.totalHintsUsed = prev.totalHintsUsed + 1]
        ELSE
        LET currentHintWords == wordHintsOf(prev, proverbIndex)
            availableWordsForProverb ==
              SelectSeq(prev.allWords,
                  LAMBDA w : isAvailableForProverb(w, proverbIndex))
            targetPosition ==
              targetPositionFrom(prev.allWords, proverbIndex, 0, Len(solutionWords))
        IN  IF currentHintWords >= maxHintWords(totalWords) THEN prev
            ELSE IF Len(availableWordsForProverb) = 0 THEN prev
            ELSE IF targetPosition = -1 THEN prev
            ELSE
            LET correct == SelectSeq(availableWordsForProverb,
                               LAMBDA w : w.originalIndex = targetPosition)
                wordToPlace == IF Len(correct) > 0 THEN correct[1]
                               ELSE availableWordsForProverb[1]
                newWords ==
                  [k \in 1..Len(prev.allWords) |->
                     LET word == prev.allWords[k]
                     IN  IF word.id = wordToPlace.id
                         THEN [word EXCEPT !.placement =
                                  Placement(proverbIndex, targetPosition)]
                         ELSE IF isAt(word, proverbIndex, targetPosition)
                                   /\ ~word.isLocked
                              THEN [word EXCEPT !.placement = null]
                              ELSE word]
                newWordHintsUsed ==
                  [q \in DOMAIN prev.wordHintsUsed \cup {proverbIndex} |->
                     IF q = proverbIndex THEN currentHintWords + 1
                     ELSE prev.wordHintsUsed[q]]
            IN  [prev EXCEPT !.allWords = newWords,
                             !.wordHintsUsed = newWordHintsUsed,
                             !.totalHintsUsed = prev.totalHintsUsed + 1,
                             !.proverbValidation = resetValidation(prev)]

(***************************************************************************)
(* Selection.                                                              *)
(***************************************************************************)
\* variant: selecting a word keeps the selected placeholder
handleSelectWordKeepingPlaceholder(prev, selectedId) ==
    [prev EXCEPT !.selectionState.selectedWordId = selectedId]

handleSelectWord(prev, selectedId) ==
    [prev EXCEPT
        !.selectionState.selectedWordId = selectedId,
        !.selectionState.selectedPlaceholder =
            IF selectedId # nullId THEN null
            ELSE prev.selectionState.selectedPlaceholder]

\* variant: selecting a placeholder also moves the auto-focus onto it
handleSelectPlaceholderMovingFocus(prev, proverbIndex, positionIndex) ==
    [prev EXCEPT
        !.selectionState.selectedPlaceholder = Placement(proverbIndex, positionIndex),
        !.selectionState.selectedWordId = nullId,
        !.selectionState.autoFocusTarget = Placement(proverbIndex, positionIndex)]

handleSelectPlaceholder(prev, proverbIndex, positionIndex) ==
    [prev EXCEPT
        !.selectionState.selectedPlaceholder = Placement(proverbIndex, positionIndex),
        !.selectionState.selectedWordId = nullId]

handleClearSelection(prev) ==
    [prev EXCEPT
        !.selectionState = NoSelection(prev.selectionState.autoFocusTarget)]

handleUpdateAutoFocus(prev, target) ==
    [prev EXCEPT !.selectionState.autoFocusTarget = target]

(***************************************************************************)
(* Auto-focus progression.                                                 *)
(***************************************************************************)
\* one inner loop of findNextEmptySlot: the first position of proverbIdx in
\* pos .. maxPos - 1 that holds no word, null when every one holds a word
RECURSIVE emptyInProverb(_, _, _, _)
emptyInProverb(words, proverbIdx, pos, maxPos) ==
    IF pos >= maxPos THEN null
    ELSE IF ~wordAtPosition(words, proverbIdx, pos)
         THEN Placement(proverbIdx, pos)
         ELSE emptyInProverb(words, proverbIdx, pos + 1, maxPos)

\* the loops over whole proverbs, from proverbIdx up to the last proverb
RECURSIVE emptyInProverbsFrom(_, _, _)
emptyInProverbsFrom(data, words, proverbIdx) ==
    IF proverbIdx >= Len(data.proverbs) THEN null
    ELSE LET found == emptyInProverb(words, proverbIdx, 0,
                                     slotCount(data, proverbIdx))
         IN  IF found # null THEN found
             ELSE emptyInProverbsFrom(data, words, proverbIdx + 1)

\* variant: the wrap-around scans the whole of the current proverb
maxPosWholeProverb(proverbIdx, currentProverbIndex, currentPosition, wordCount) ==
    wordCount

\* where the wrap-around stops in proverb proverbIdx
maxPos(proverbIdx, currentProverbIndex, currentPosition, wordCount) ==
    IF proverbIdx = currentProverbIndex THEN currentPosition ELSE wordCount

\* the wrap-around: proverbs proverbIdx .. currentProverbIndex from position 0
RECURSIVE emptyFromTheBeginning(_, _, _, _, _)
emptyFromTheBeginning(data, words, proverbIdx, currentProverbIndex, currentPosition) ==
    IF proverbIdx > currentProverbIndex THEN null
    ELSE LET found == emptyInProverb(words, proverbIdx, 0,
                         maxPos(proverbIdx, currentProverbIndex, currentPosition,
                                slotCount(data, proverbIdx)))
         IN  IF found # null THEN found
             ELSE emptyFromTheBeginning(data, words, proverbIdx + 1,
                                        currentProverbIndex, currentPosition)

\* findNextEmptySlot, on the state it is a closure of
findNextEmptySlot(state, currentProverbIndex, currentPosition) ==
    IF state.puzzleData = null THEN null
    ELSE IF currentProverbIndex = -1
         THEN emptyInProverbsFrom(state.puzzleData, state.allWords, 0)
    ELSE LET data     == state.puzzleData
             words    == state.allWords
             same     == emptyInProverb(words, currentProverbIndex,
                                        currentPosition + 1,
                                        slotCount(data, currentProverbIndex))
             later    == emptyInProverbsFrom(data, words, currentProverbIndex + 1)
         IN  IF same # null THEN same
             ELSE IF later # null THEN later
             ELSE emptyFromTheBeginning(data, words, 0, currentProverbIndex,
                                        currentPosition)

\* handleDrop of the puzzle view, which runs its three updates on the hook in
\* one batch; findNextEmptySlot is the one of the render the drop happens in
handleDrop(state, draggedWordId, proverbIndex, position) ==
    LET droppedId == IF draggedWordId # nullId THEN draggedWordId
                     ELSE state.selectionState.selectedWordId
    IN  IF droppedId = nullId THEN state
        ELSE LET moved    == handleMoveWord(state, droppedId, proverbIndex, position)
                 cleared  == handleClearSelection(moved)
                 nextSlot == findNextEmptySlot(state, proverbIndex, position)
             IN  IF nextSlot # null
                 THEN handleUpdateAutoFocus(cleared, nextSlot)
                 ELSE cleared

\* handleAvailableWordClick of the puzzle view: a tap on a word of the tray,
\* placed at the selected placeholder, else at the auto-focus target, else at
\* the first empty slot; the updates on the hook run in one batch
handleAvailableWordClick(state, tappedId) ==
    LET selection == state.selectionState
    IN  IF selection.selectedWordId = tappedId THEN handleSelectWord(state, nullId)
        ELSE
        LET targetSlot ==
              IF selection.selectedPlaceholder # null
              THEN selection.selectedPlaceholder
              ELSE IF selection.autoFocusTarget # null
                   THEN selection.autoFocusTarget
                   ELSE findNextEmptySlot(state, -1, -1)
        IN  IF targetSlot = null THEN handleSelectWord(state, tappedId)
            ELSE
            LET moved    == handleMoveWord(state, tappedId, targetSlot.proverbIndex,
                                           targetSlot.positionIndex)
                cleared  == handleClearSelection(moved)
                nextSlot == findNextEmptySlot(state, targetSlot.proverbIndex,
                                              targetSlot.positionIndex)
            IN  IF nextSlot # null
                THEN handleUpdateAutoFocus(cleared, nextSlot)
                ELSE cleared

\* availableWords of the hook: the words of the tray
availableWords(state) == SelectSeq(state.allWords, LAMBDA w : w.placement = null)

\* the word a drop zone shows: the first word placed at its position
zoneWords(state, p, i) == SelectSeq(state.allWords, LAMBDA w : isAt(w, p, i))

\* the words the player can drag: every word of the tray, and the word a
\* zone shows unless it is locked
draggableIds(state) ==
    { availableWords(state)[k].id : k \in 1..Len(availableWords(state)) }
    \cup { w.id : w \in { state.allWords[k] : k \in
             { j \in 1..Len(state.allWords) :
                 LET word == state.allWords[j]
                 IN  /\ word.placement # null
                     /\ ~word.isLocked
                     /\ zoneWords(state, word.placement.proverbIndex,
                                  word.placement.positionIndex)[1].id = word.id } } }

\* the hint button of proverb p is shown and enabled
hintButtonEnabled(state, p) ==
    LET totalWords == slotCount(state.puzzleData, p)
        hasAvailableWords ==
          \E k \in 1..Len(availableWords(state)) :
              availableWords(state)[k].sourceProverbIndex = p
        showLevel1 == p \notin state.usedHints
        canUseWordHint ==
          /\ p \in state.usedHints
          /\ hasAvailableWords
          /\ wordHintsOf(state, p) < maxHintWords(totalWords)
    IN  /\ ~state.proverbValidation[p + 1].isSolved
        /\ showLevel1 \/ canUseWordHint
        /\ ~state.isCompleted

\* the validate button of proverb p is shown and enabled
validateProverbButtonEnabled(state, p) ==
    LET placedWords ==
          SelectSeq(state.allWords,
              LAMBDA w : w.placement # null /\ w.placement.proverbIndex = p)
    IN  /\ ~state.proverbValidation[p + 1].isSolved
        /\ Len(placedWords) = slotCount(state.puzzleData, p)
        /\ ~(state.isCompleted \/ state.hasFailedGame)

(***************************************************************************)
(* Batched updates.  Every operation of the hook passes an updater         *)
(* prev => next to setGameState; the updaters queued since the last render *)
(* run at the next render, in the order of their calls.                    *)
(***************************************************************************)
MaxBatch == 3

\* the updater a call of an operation queues, with the arguments of the call
Update(op, id, p, i) ==
    [op |-> op, wordId |-> id, proverbIndex |-> p, positionIndex |-> i]

\* the body of the updater, on the state it is given as prev
updaterOn(state, update) ==
    CASE update.op = "moveWord" ->
           handleMoveWord(state, update.wordId, update.proverbIndex,
                          update.positionIndex)
      [] update.op = "removeWord" -> handleRemoveWord(state, update.wordId)
      [] update.op = "validate" -> handleValidate(state)
      [] update.op = "useHint" -> handleUseHint(state, update.proverbIndex)
      [] update.op = "reset" -> handleReset(state)

\* variant: every updater is given the state of the last render
prevAsRendered(queued, rendered) == rendered

\* the prev an updater is given: the state the updaters before it produced
prevOf(queued, rendered) == queued

\* the queue of updaters is run at a render
RECURSIVE processUpdateQueue(_, _, _)
processUpdateQueue(queued, rendered, queue) ==
    IF queue = <<>> THEN queued
    ELSE processUpdateQueue(updaterOn(prevOf(queued, rendered), Head(queue)),
                            rendered, Tail(queue))

(***************************************************************************)
(* Puzzles.                                                                *)
(***************************************************************************)
The == <<"T", "h", "e">>
the == <<"t", "h", "e">>
cat == <<"c", "a", "t">>
sat == <<"s", "a", "t">>
Fox == <<"F", "o", "x">>
ox  == <<"o", "x">>
to  == <<"t", "o">>

Proverb(tokens) == [solution |-> join(tokens, <<" ">>), culture |-> <<"T">>]
Puzzle(tokenLists) ==
    [proverbs |-> [k \in 1..Len(tokenLists) |-> Proverb(tokenLists[k])]]

\* the puzzles played in Spec
GamePuzzles ==
    { Puzzle(<< <<The, cat>>, <<the, ox>> >>) }

\* the puzzles played in SpecSelection: one proverb with an anchor, one
\* proverb without, and two proverbs
SelectionPuzzles ==
    { Puzzle(<< <<Fox, ox>> >>),
      Puzzle(<< <<The, ox>> >>),
      Puzzle(<< <<Fox>>, <<ox>> >>) }

\* the puzzle played in SpecBatch: one proverb of two words
BatchPuzzles ==
    { Puzzle(<< <<Fox, ox>> >>) }

\* the puzzles played in SpecFocus: three proverbs, the first with an anchor
FocusPuzzles ==
    { Puzzle(<< <<The, cat>>, <<to, ox>>, <<ox>> >>) }

\* all sequences of 1..n tokens over a vocabulary
TokenLists(vocabulary, n) == UNION { [1..len -> vocabulary] : len \in 1..n }

LongVocabulary  == {The, Fox}
ShortVocabulary == {The, Fox, ox, to, cat}

\* validatePuzzle accepts proverbs of at least this many words
MinProverbWords == 3

\* a proverb of n words: "cat" first, "Fox" last, "sat" fifth, short words between
HintProverb(n) ==
    [k \in 1..n |-> IF k = 1 THEN cat
                    ELSE IF k = n THEN Fox
                    ELSE IF k = 5 THEN sat
                    ELSE IF k % 2 = 0 THEN to ELSE ox]

\* the puzzles played in SpecHints
HintPuzzles ==
    GamePuzzles
      \cup { Puzzle(<<HintProverb(n)>>) : n \in MinProverbWords..MaxWords }

HintVocabulary == {Fox, ox}

\* the puzzles played in SpecHintsOnly: two proverbs of short words
HintOnlyPuzzles ==
    { Puzzle(<<first, second>>) :
        first \in TokenLists(HintVocabulary, MaxShortWords),
        second \in TokenLists(HintVocabulary, MaxShortWords) }

\* the puzzles given to the initializer in SpecInit
InitPuzzles ==
    GamePuzzles
      \cup { Puzzle(<<ts>>) : ts \in TokenLists(LongVocabulary, MaxWords) }
      \cup { Puzzle(<<ts>>) : ts \in TokenLists(ShortVocabulary, MaxShortWords) }

(***************************************************************************)
(* The state machine.                                                      *)
(***************************************************************************)
\* the game page renders the hook before its puzzle has arrived: the hook
\* starts without puzzle data and the host then supplies puzzleProp
InitWith(puzzles) ==
    /\ puzzleProp \in puzzles
    /\ gameState = EmptyGameState
    /\ fixedWordCache = <<>>
    /\ failedValidations = 0
    /\ pending = <<>>

Init == InitWith(GamePuzzles)

InitI == InitWith(InitPuzzles)

InitHints == InitWith(HintPuzzles)

InitSelection == InitWith(SelectionPuzzles)

InitFocus == InitWith(FocusPuzzles)

InitHintsOnly == InitWith(HintOnlyPuzzles)

InitBatch == InitWith(BatchPuzzles)

\* the effect "update game state when puzzle data changes"
LoadPuzzle ==
    /\ puzzleProp # null
    /\ gameState.puzzleData = null \/ gameState.puzzleData # puzzleProp
    /\ \E initialWords \in initializeGlobalWords(puzzleProp, fixedWordCache) :
         LET cacheKey == generatePuzzleCacheKey(puzzleProp.proverbs)
         IN  /\ gameState' = LoadedGameState(puzzleProp, initialWords,
                                 firstEmptySlot(puzzleProp, initialWords))
             /\ fixedWordCache' =
                  IF cacheHas(fixedWordCache, cacheKey) THEN fixedWordCache
                  ELSE cacheAfterSet(fixedWordCache, cacheKey, initialWords)
    /\ failedValidations' = 0
    /\ UNCHANGED <<puzzleProp, pending>>

\* the ids and slots the view offers to the handlers
WordIds == { gameState.allWords[k].id : k \in 1..Len(gameState.allWords) }
ProverbIndices ==
    IF gameState.puzzleData = null THEN {}
    ELSE 0..(Len(gameState.puzzleData.proverbs) - 1)
Slots ==
    UNION { { Placement(p, i) : i \in 0..(slotCount(gameState.puzzleData, p) - 1) }
            : p \in ProverbIndices }

MoveWord ==
    \E id \in WordIds, slot \in Slots :
        /\ gameState' = handleMoveWord(gameState, id, slot.proverbIndex, slot.positionIndex)
        /\ UNCHANGED <<puzzleProp, fixedWordCache, failedValidations, pending>>

RemoveWord ==
    \E id \in WordIds :
        /\ gameState' = handleRemoveWord(gameState, id)
        /\ UNCHANGED <<puzzleProp, fixedWordCache, failedValidations, pending>>

Validate ==
    /\ gameState' = handleValidate(gameState)
    /\ UNCHANGED <<puzzleProp, fixedWordCache, failedValidations, pending>>

\* validateAll, with the history of its failures kept
ValidateCounted ==
    /\ gameState' = handleValidate(gameState)
    /\ failedValidations' =
          IF /\ gameState' # gameState
             /\ \E p \in 1..Len(gameState'.proverbValidation) :
                   ~gameState'.proverbValidation[p].isSolved
          THEN failedValidations + 1
          ELSE failedValidations
    /\ UNCHANGED <<puzzleProp, fixedWordCache, pending>>

ValidateProverb ==
    \E p \in ProverbIndices :
        /\ gameState' = handleValidateProverb(gameState, p)
        /\ UNCHANGED <<puzzleProp, fixedWordCache, failedValidations, pending>>

UseHint ==
    \E p \in ProverbIndices :
        /\ gameState' = handleUseHint(gameState, p)
        /\ UNCHANGED <<puzzleProp, fixedWordCache, failedValidations, pending>>

Reset ==
    /\ gameState' = handleReset(gameState)
    /\ failedValidations' = 0
    /\ UNCHANGED <<puzzleProp, fixedWordCache, pending>>

Next ==
    \/ LoadPuzzle
    \/ MoveWord
    \/ RemoveWord
    \/ Validate
    \/ ValidateProverb
    \/ UseHint
    \/ Reset

Spec == Init /\ [][Next]_vars

NextI == LoadPuzzle

\* the session with the history of failed validations
NextAttempts ==
    \/ LoadPuzzle
    \/ MoveWord
    \/ RemoveWord
    \/ ValidateCounted
    \/ ValidateProverb
    \/ UseHint
    \/ Reset

SpecInit == InitI /\ [][NextI]_vars

SpecAttempts == Init /\ [][NextAttempts]_vars

\* sessions on proverbs of every length, with every operation but moveWord
NextHints ==
    \/ LoadPuzzle
    \/ UseHint
    \/ RemoveWord
    \/ Validate
    \/ ValidateProverb
    \/ Reset

SpecHints == InitHints /\ [][NextHints]_vars

SelectWord ==
    \E selectedId \in WordIds \cup {nullId} :
        /\ gameState' = handleSelectWord(gameState, selectedId)
        /\ UNCHANGED <<puzzleProp, fixedWordCache, failedValidations, pending>>

SelectPlaceholder ==
    \E slot \in Slots :
        /\ gameState' = handleSelectPlaceholder(gameState, slot.proverbIndex,
                                                slot.positionIndex)
        /\ UNCHANGED <<puzzleProp, fixedWordCache, failedValidations, pending>>

ClearSelection ==
    /\ gameState' = handleClearSelection(gameState)
    /\ UNCHANGED <<puzzleProp, fixedWordCache, failedValidations, pending>>

UpdateAutoFocus ==
    \E target \in Slots \cup {null} :
        /\ gameState' = handleUpdateAutoFocus(gameState, target)
        /\ UNCHANGED <<puzzleProp, fixedWordCache, failedValidations, pending>>

\* the session with the selection operations
NextSelection ==
    \/ LoadPuzzle
    \/ MoveWord
    \/ RemoveWord
    \/ Validate
    \/ ValidateProverb
    \/ UseHint
    \/ Reset
    \/ SelectWord
    \/ SelectPlaceholder
    \/ ClearSelection
    \/ UpdateAutoFocus

SpecSelection == InitSelection /\ [][NextSelection]_vars

\* the sessions in which the player only asks for hints
NextHintsOnly ==
    \/ LoadPuzzle
    \/ UseHint

SpecHintsOnly == InitHintsOnly /\ [][NextHintsOnly]_vars

\* a word is dropped on a slot: dragged there, or selected before
Drop ==
    \E draggedWordId \in WordIds \cup {nullId}, slot \in Slots :
        /\ gameState' = handleDrop(gameState, draggedWordId, slot.proverbIndex,
                                   slot.positionIndex)
        /\ UNCHANGED <<puzzleProp, fixedWordCache, failedValidations, pending>>

\* the session of placing words with the auto-focus following
NextFocus ==
    \/ LoadPuzzle
    \/ Drop
    \/ RemoveWord
    \/ SelectWord

SpecFocus == InitFocus /\ [][NextFocus]_vars

\* a tap on a word of the tray
TapTrayWord ==
    \E k \in 1..Len(availableWords(gameState)) :
        /\ gameState' = handleAvailableWordClick(gameState,
                                                 availableWords(gameState)[k].id)
        /\ UNCHANGED <<puzzleProp, fixedWordCache, failedValidations, pending>>

\* a word is dragged onto a zone, or an empty zone is tapped
DropOnSlot ==
    \E draggedWordId \in draggableIds(gameState) \cup {nullId}, slot \in Slots :
        /\ draggedWordId = nullId =>
              ~wordAtPosition(gameState.allWords, slot.proverbIndex,
                              slot.positionIndex)
        /\ gameState' = handleDrop(gameState, draggedWordId, slot.proverbIndex,
                                   slot.positionIndex)
        /\ UNCHANGED <<puzzleProp, fixedWordCache, failedValidations, pending>>

\* a tap on the hint button of a proverb
TapHintButton ==
    \E p \in ProverbIndices :
        /\ hintButtonEnabled(gameState, p)
        /\ gameState' = handleUseHint(gameState, p)
        /\ UNCHANGED <<puzzleProp, fixedWordCache, failedValidations, pending>>

\* a tap on the validate button of a proverb
TapValidateProverbButton ==
    \E p \in ProverbIndices :
        /\ validateProverbButtonEnabled(gameState, p)
        /\ gameState' = handleValidateProverb(gameState, p)
        /\ UNCHANGED <<puzzleProp, fixedWordCache, failedValidations, pending>>

\* the session as the gestures of the puzzle view, each gesture whole
NextGestures ==
    \/ LoadPuzzle
    \/ TapTrayWord
    \/ DropOnSlot
    \/ TapHintButton
    \/ TapValidateProverbButton
    \/ Reset

SpecGestures == Init /\ [][NextGestures]_vars

\* an operation is called: its updater joins the queue of the render
Queue(update) ==
    /\ gameState.puzzleData # null
    /\ Len(pending) < MaxBatch
    /\ pending' = Append(pending, update)
    /\ UNCHANGED <<puzzleProp, gameState, fixedWordCache, failedValidations>>

CallMoveWord ==
    \E id \in WordIds, slot \in Slots :
        Queue(Update("moveWord", id, slot.proverbIndex, slot.positionIndex))

CallRemoveWord == \E id \in WordIds : Queue(Update("removeWord", id, -1, -1))

CallValidate == Queue(Update("validate", nullId, -1, -1))

CallUseHint == \E p \in ProverbIndices : Queue(Update("useHint", nullId, p, -1))

CallReset == Queue(Update("reset", nullId, -1, -1))

\* the render after a batch of calls
Render ==
    /\ pending # <<>>
    /\ gameState' = processUpdateQueue(gameState, gameState, pending)
    /\ pending' = <<>>
    /\ UNCHANGED <<puzzleProp, fixedWordCache, failedValidations>>

\* the session with the calls of a batch queued until the render
NextBatch ==
    \/ LoadPuzzle
    \/ CallMoveWord
    \/ CallRemoveWord
    \/ CallValidate
    \/ CallUseHint
    \/ CallReset
    \/ Render

SpecBatch == InitBatch /\ [][NextBatch]_vars

(***************************************************************************)
(* Properties.                                                             *)
(***************************************************************************)
words == gameState.allWords
Loaded == gameState.puzzleData # null
WordIndices == 1..Len(words)
UnlockedIds == { words[k].id : k \in { j \in WordIndices : ~words[j].isLocked } }
LockedIds == { words[k].id : k \in { j \in WordIndices : words[j].isLocked } }

\* C1: in every reachable state no two distinct words have the same non-null
\* placement, also after a moveWord onto a slot held by a locked word.
C1_NoTwoWordsShareSlot ==
    \A j \in WordIndices, k \in WordIndices :
        (j # k /\ words[j].placement # null)
            => words[j].placement # words[k].placement

\* C2: every locked word has a non-null placement, and no step changes the
\* placement of a word that is locked.
C2_LockedWordKeepsPlacement ==
    [][ \A k \in 1..Len(gameState'.allWords) :
          /\ gameState'.allWords[k].isLocked
                => gameState'.allWords[k].placement # null
          /\ (k \in WordIndices /\ words[k].isLocked)
                => gameState'.allWords[k].placement = words[k].placement ]_vars

\* C3: moveWord and removeWord called with a locked word return the session
\* state unchanged, and a moveWord of another word onto the slot of a locked
\* word leaves the locked occupant's placement as it was.
C3_LockedWordRejected ==
    /\ \A id \in LockedIds :
          /\ handleRemoveWord(gameState, id) = gameState
          /\ \A slot \in Slots :
                handleMoveWord(gameState, id, slot.proverbIndex, slot.positionIndex)
                    = gameState
    /\ \A id \in WordIds, k \in WordIndices :
          (words[k].isLocked /\ words[k].placement # null /\ words[k].id # id)
            => handleMoveWord(gameState, id, words[k].placement.proverbIndex,
                              words[k].placement.positionIndex).allWords[k].placement
                 = words[k].placement

\* a locked word sits on the board beside a placed unlocked word, after a
\* validation has been spent and a hint used, and some unlocked word can be
\* moved onto the locked word's slot
C3_Witness ==
    /\ gameState.totalValidationAttempts > 0
    /\ gameState.totalHintsUsed > 0
    /\ \E k \in WordIndices, j \in WordIndices :
          /\ words[k].isLocked /\ words[k].placement # null
          /\ ~words[j].isLocked /\ words[j].placement # null
          /\ handleMoveWord(gameState, words[j].id, words[k].placement.proverbIndex,
                            words[k].placement.positionIndex) # gameState

(***************************************************************************)
(* The initializer, stated from the puzzle's text.                         *)
(***************************************************************************)
proverbCount == Len(gameState.puzzleData.proverbs)
\* the whitespace-separated tokens of proverb p (0-based)
tokensOf(p) == split(gameState.puzzleData.proverbs[p + 1].solution)
stoplist ==
    { <<"a">>, <<"a", "n">>, <<"t", "h", "e">>, <<"i", "s">>, <<"t", "o">>,
      <<"o", "f">>, <<"i", "n">>, <<"o", "n">>, <<"a", "t">>, <<"i", "t">> }
anchorEligible(token) == Len(token) > 2 /\ toLowerCase(token) \notin stoplist
eligiblePositions(p) ==
    LET toks == tokensOf(p)
    IN  { i \in 0..(Len(toks) - 1) : anchorEligible(toks[i + 1]) }
lockedOf(p) ==
    { k \in WordIndices : words[k].sourceProverbIndex = p /\ words[k].isLocked }
bandTarget(n) == IF n < 5 THEN 1 ELSE IF n <= 9 THEN 2 ELSE 3

\* C4: for every proverb with n words the initializer locks exactly
\* min(target(n), number of anchor-eligible positions) words, with target 1
\* for n < 5, 2 for 5 <= n <= 9 and 3 for n > 9, whatever the random choices.
C4_AnchorCountLaw ==
    Loaded =>
      \A p \in 0..(proverbCount - 1) :
          Cardinality(lockedOf(p))
            = Min(bandTarget(Len(tokensOf(p))), Cardinality(eligiblePositions(p)))

\* a proverb of more than 9 words with only two eligible positions was
\* initialized: the clamp decided the count
C4_Witness ==
    /\ Loaded
    /\ \E p \in 0..(proverbCount - 1) :
          /\ Len(tokensOf(p)) > 9
          /\ Cardinality(eligiblePositions(p)) = 2
          /\ Cardinality(lockedOf(p)) = 2

\* C5: every word locked by the initializer has a token longer than 2
\* characters whose lower-cased form is not in the stoplist.
C5_AnchorsAreEligible ==
    Loaded =>
      \A k \in WordIndices :
          words[k].isLocked
            => /\ Len(words[k].text) > 2
               /\ toLowerCase(words[k].text) \notin stoplist

\* an initialized proverb holds an anchor next to a capitalised stoplist word
\* and a two-letter word, both left unlocked
C5_Witness ==
    /\ Loaded
    /\ \E k \in WordIndices : words[k].isLocked
    /\ \E k \in WordIndices : words[k].text = The /\ ~words[k].isLocked
    /\ \E k \in WordIndices : words[k].text = ox /\ ~words[k].isLocked

\* C6: in the state the initializer produces, the pool holds exactly one word
\* per solution token, in solution order, with id "proverbIndex-wordIndex";
\* every anchor is placed at (sourceProverbIndex, originalIndex), locked and
\* marked isFixedByLength, every other word is unplaced, unlocked and unmarked.
C6_InitialPool ==
    Loaded =>
      /\ \A p \in 0..(proverbCount - 1) :
            LET toks == tokensOf(p)
            IN  \A i \in 0..(Len(toks) - 1) :
                  LET ks == { k \in WordIndices :
                                words[k].id = ToString(p) \o "-" \o ToString(i) }
                  IN  /\ Cardinality(ks) = 1
                      /\ \A k \in ks : /\ words[k].sourceProverbIndex = p
                                       /\ words[k].originalIndex = i
                                       /\ words[k].text = toks[i + 1]
      /\ Len(words) = Len(join([q \in 1..proverbCount |-> tokensOf(q - 1)], <<>>))
      /\ \A k \in WordIndices :
            IF words[k].isLocked
            THEN /\ words[k].placement =
                      [proverbIndex  |-> words[k].sourceProverbIndex,
                       positionIndex |-> words[k].originalIndex]
                 /\ words[k].isFixedByLength
            ELSE /\ words[k].placement = null
                 /\ ~words[k].isFixedByLength

\* a two-proverb puzzle was initialized with an anchor and an unplaced word
C6_Witness ==
    /\ Loaded
    /\ proverbCount = 2
    /\ \E k \in WordIndices : words[k].isLocked /\ words[k].originalIndex > 0
    /\ \E k \in WordIndices : words[k].sourceProverbIndex = 1 /\ words[k].placement = null

(***************************************************************************)
(* Placement and validation laws.                                          *)
(***************************************************************************)
placementOf(state, id) == findWord(state.allWords, id).placement
allUnvalidated(state) ==
    \A p \in 1..Len(state.proverbValidation) :
        state.proverbValidation[p] = [isSolved |-> FALSE, isValidated |-> FALSE]

\* the state after moveWord(id, slot) followed by removeWord(id)
roundTrip(id, slot) ==
    handleRemoveWord(
        handleMoveWord(gameState, id, slot.proverbIndex, slot.positionIndex), id)

\* C7 as stated: for every unlocked word w and slot (p, i), moveWord(w, p, i)
\* followed by removeWord(w) leaves w unplaced and every other word's
\* placement as it was before the move, also when (p, i) was occupied.
C7_RoundTripKeepsOthers ==
    \A id \in UnlockedIds, slot \in Slots :
        /\ placementOf(roundTrip(id, slot), id) = null
        /\ \A k \in WordIndices :
              words[k].id # id
                => roundTrip(id, slot).allWords[k].placement = words[k].placement

\* C7 amended: moveWord(w, p, i) followed by removeWord(w) leaves w unplaced
\* and every other word's placement as it was before the move, except that an
\* unlocked word that occupied (p, i) before the move is unplaced afterwards.
C7_RoundTripEvictsOccupant ==
    \A id \in UnlockedIds, slot \in Slots :
        LET after == roundTrip(id, slot)
        IN  /\ placementOf(after, id) = null
            /\ \A k \in WordIndices :
                  words[k].id # id
                    => after.allWords[k].placement
                         = IF words[k].placement = slot /\ ~words[k].isLocked
                           THEN null ELSE words[k].placement

\* an unlocked word sits in a slot while another unlocked word sits elsewhere,
\* and a locked word holds a slot too: the round trip of the second word
\* through either slot is possible
C7_Witness ==
    \E j \in WordIndices, k \in WordIndices, l \in WordIndices :
        /\ ~words[j].isLocked /\ words[j].placement # null
        /\ ~words[k].isLocked /\ words[k].placement # null
        /\ words[k].placement # words[j].placement
        /\ words[l].isLocked /\ words[l].placement # null
        /\ roundTrip(words[k].id, words[j].placement).allWords[j].placement = null

\* C8: removeWord on a word whose placement is null leaves every field of the
\* session state as it was, so removeWord twice equals removeWord once.
C8_RemoveUnplacedIsNoOp ==
    \A id \in WordIds :
        /\ placementOf(gameState, id) = null
              => handleRemoveWord(gameState, id) = gameState
        /\ handleRemoveWord(handleRemoveWord(gameState, id), id)
              = handleRemoveWord(gameState, id)

\* an unlocked word is in the pool while some proverb carries a validation
\* result and an attempt has been spent
C8_Witness ==
    /\ \E id \in UnlockedIds : placementOf(gameState, id) = null
    /\ \E p \in 1..Len(gameState.proverbValidation) :
          gameState.proverbValidation[p].isValidated
    /\ gameState.totalValidationAttempts > 0

\* C9: after any moveWord or removeWord of an unlocked word every proverb's
\* validation entry equals {isSolved: false, isValidated: false}.
C9_MovementResetsValidation ==
    \A id \in UnlockedIds :
        /\ allUnvalidated(handleRemoveWord(gameState, id))
        /\ \A slot \in Slots :
              allUnvalidated(handleMoveWord(gameState, id,
                                            slot.proverbIndex, slot.positionIndex))

\* C10: validateAll returns the state unchanged whenever hasFailedGame is true
\* or validationAttempts <= 0.
C10_ValidateRefusedIsNoOp ==
    (gameState.hasFailedGame \/ gameState.validationAttempts <= 0)
        => handleValidate(gameState) = gameState

\* the last attempt was spent on a successful validation: no attempt is left
\* and the game has not failed
C10_Witness ==
    /\ Loaded
    /\ gameState.validationAttempts <= 0
    /\ ~gameState.hasFailedGame
    /\ gameState.isCompleted

(***************************************************************************)
(* The attempt budget.                                                     *)
(***************************************************************************)
validated == handleValidate(gameState)
allFoundSolved(state) ==
    \A p \in 1..Len(state.proverbValidation) : state.proverbValidation[p].isSolved

\* C11: every validateAll that is not a no-op decreases validationAttempts by
\* exactly 1, increases totalValidationAttempts by exactly 1, sets isCompleted
\* to true iff every proverb was found solved, and sets hasFailedGame to true
\* iff not every proverb was found solved and the decremented
\* validationAttempts is <= 0.
C11_ValidateAccounting ==
    LET after == validated
    IN  after # gameState =>
            /\ after.validationAttempts = gameState.validationAttempts - 1
            /\ after.totalValidationAttempts = gameState.totalValidationAttempts + 1
            /\ after.isCompleted = allFoundSolved(after)
            /\ after.hasFailedGame
                  = (~allFoundSolved(after) /\ after.validationAttempts <= 0)

\* a validateAll has just spent the last attempt with one proverb found solved
\* and the other not
C11_Witness ==
    /\ Loaded
    /\ gameState.validationAttempts = 0
    /\ gameState.totalValidationAttempts = 3
    /\ gameState.hasFailedGame
    /\ \E p \in 1..Len(gameState.proverbValidation) :
          gameState.proverbValidation[p] = [isSolved |-> TRUE, isValidated |-> TRUE]
    /\ \E p \in 1..Len(gameState.proverbValidation) :
          gameState.proverbValidation[p] = [isSolved |-> FALSE, isValidated |-> TRUE]

\* C12: from a fresh or freshly reset session (validationAttempts = 3), once
\* three validateAll calls have each found at least one proverb unsolved, with
\* any moveWord, removeWord, useHint and validateProverb calls interleaved but
\* no reset, hasFailedGame is true and validationAttempts is 0.
C12_ThreeFailuresEndTheGame ==
    failedValidations >= 3
        => gameState.hasFailedGame /\ gameState.validationAttempts = 0

\* three validations have failed and the board was changed afterwards: no
\* proverb is marked validated any more, and a hint has been used
C12_Witness ==
    /\ failedValidations = 3
    /\ gameState.totalValidationAttempts = 3
    /\ gameState.totalHintsUsed > 0
    /\ \A p \in 1..Len(gameState.proverbValidation) :
          ~gameState.proverbValidation[p].isValidated

(***************************************************************************)
(* The verdicts of validateAll.                                            *)
(***************************************************************************)
\* the words placed in proverb p (0-based), as indices of the word list
placedIn(p) ==
    { k \in WordIndices : words[k].placement # null
                            /\ words[k].placement.proverbIndex = p }

\* every way of listing the words placed in p in ascending positionIndex order
ascendingOrders(p) ==
    { f \in [1..Cardinality(placedIn(p)) -> placedIn(p)] :
        /\ \A i \in DOMAIN f, j \in DOMAIN f : i # j => f[i] # f[j]
        /\ \A i \in DOMAIN f, j \in DOMAIN f :
              i < j => words[f[i]].placement.positionIndex
                         <= words[f[j]].placement.positionIndex }

\* the texts listed by f equal the canonical tokens of p, case-insensitively
textsMatch(f, p) ==
    LET toks == tokensOf(p)
    IN  \A i \in DOMAIN f : toLowerCase(words[f[i]].text) = toLowerCase(toks[i])

\* C13: an effective validateAll sets every proverb's entry to isValidated =
\* true, with isSolved = true exactly when the number of words placed in the
\* proverb equals its canonical word count and their texts, in ascending
\* positionIndex order, equal the canonical tokens case-insensitively; a
\* proverb with another placed-word count gets {isSolved: false, isValidated:
\* true}.  Where two words share a position the order is any ascending one.
C13_ValidateVerdicts ==
    LET after == validated
    IN  after # gameState =>
          \A p \in 0..(proverbCount - 1) :
            LET entry  == after.proverbValidation[p + 1]
                placed == Cardinality(placedIn(p))
                orders == ascendingOrders(p)
            IN  /\ entry.isValidated
                /\ placed # Len(tokensOf(p))
                      => entry = [isSolved |-> FALSE, isValidated |-> TRUE]
                /\ placed = Len(tokensOf(p))
                      => /\ entry.isSolved
                              => \E f \in orders : textsMatch(f, p)
                         /\ (\A f \in orders : textsMatch(f, p))
                              => entry.isSolved

\* validateAll has judged a board where the first proverb is completed with
\* the lower-case "the" of the other proverb and found solved, and the other
\* proverb holds too few words and is found unsolved
C13_Witness ==
    /\ Loaded
    /\ proverbCount = 2
    /\ gameState.totalValidationAttempts > 0
    /\ gameState.proverbValidation[1] = [isSolved |-> TRUE, isValidated |-> TRUE]
    /\ gameState.proverbValidation[2] = [isSolved |-> FALSE, isValidated |-> TRUE]
    /\ \E k \in placedIn(0) :
          /\ words[k].text = the
          /\ words[k].placement.positionIndex = 0
    /\ Cardinality(placedIn(0)) = 2
    /\ Cardinality(placedIn(1)) < 2

(***************************************************************************)
(* The failed game.                                                        *)
(***************************************************************************)
\* the selection states the selection operations can be called in
SelectionStates ==
    [ selectedWordId      : WordIds \cup {nullId},
      selectedPlaceholder : {null},
      autoFocusTarget     : Slots \cup {null} ]
      \cup
    [ selectedWordId      : {nullId},
      selectedPlaceholder : Slots,
      autoFocusTarget     : Slots \cup {null} ]

\* C14: hasFailedGame is terminal until reset: while it is true, it stays true
\* under every moveWord, removeWord, validateAll, validateProverb, useHint and
\* selection operation, validateAll and validateProverb leave the state
\* unchanged, and reset makes it false again.
C14_FailedGameIsTerminal ==
    gameState.hasFailedGame =>
        /\ \A id \in WordIds :
              /\ handleRemoveWord(gameState, id).hasFailedGame
              /\ \A slot \in Slots :
                    handleMoveWord(gameState, id, slot.proverbIndex,
                                   slot.positionIndex).hasFailedGame
        /\ handleValidate(gameState) = gameState
        /\ \A p \in ProverbIndices :
              /\ handleValidateProverb(gameState, p) = gameState
              /\ handleUseHint(gameState, p).hasFailedGame
        /\ \A sel \in SelectionStates :
              LET selecting == [gameState EXCEPT !.selectionState = sel]
              IN  /\ \A id \in WordIds \cup {nullId} :
                        handleSelectWord(selecting, id).hasFailedGame
                  /\ \A slot \in Slots :
                        handleSelectPlaceholder(selecting, slot.proverbIndex,
                                                slot.positionIndex).hasFailedGame
                  /\ handleClearSelection(selecting).hasFailedGame
                  /\ \A target \in Slots \cup {null} :
                        handleUpdateAutoFocus(selecting, target).hasFailedGame
        /\ ~handleReset(gameState).hasFailedGame

\* the game has failed while one proverb is completely filled and not marked
\* solved, a hint can still place a word, and words can still be moved
C14_Witness ==
    /\ gameState.hasFailedGame
    /\ \E p \in ProverbIndices :
          /\ Cardinality(placedIn(p)) = Len(tokensOf(p))
          /\ ~gameState.proverbValidation[p + 1].isSolved
    /\ \E p \in ProverbIndices : handleUseHint(gameState, p) # gameState
    /\ \E id \in UnlockedIds : handleRemoveWord(gameState, id) # gameState

(***************************************************************************)
(* validateProverb.                                                        *)
(***************************************************************************)
proverbValidated(p) == handleValidateProverb(gameState, p)
isComplete(p) == Cardinality(placedIn(p)) = Len(tokensOf(p))

\* C15: validateProverb(p) returns the state unchanged when proverb p is
\* already marked solved, when hasFailedGame is true, or when the number of
\* words placed in p differs from p's canonical word count; an incomplete
\* proverb is never marked isValidated by it.
C15_ValidateProverbRefusals ==
    \A p \in ProverbIndices :
        /\ (\/ gameState.proverbValidation[p + 1].isSolved
            \/ gameState.hasFailedGame
            \/ ~isComplete(p))
              => proverbValidated(p) = gameState
        /\ ~isComplete(p)
              => proverbValidated(p).proverbValidation[p + 1].isValidated
                   = gameState.proverbValidation[p + 1].isValidated

\* the game has not failed, one proverb holds some but not all of its words
\* and is neither solved nor validated, and the other proverb is completely
\* filled and validateProverb acts on it
C15_Witness ==
    /\ Loaded
    /\ ~gameState.hasFailedGame
    /\ \E p \in ProverbIndices :
          /\ ~isComplete(p)
          /\ Cardinality(placedIn(p)) > 0
          /\ \E k \in placedIn(p) : ~words[k].isLocked
          /\ ~gameState.proverbValidation[p + 1].isSolved
          /\ ~gameState.proverbValidation[p + 1].isValidated
    /\ \E p \in ProverbIndices :
          isComplete(p) /\ proverbValidated(p) # gameState

\* validateProverb(p) passes its three refusals
effective(p) ==
    /\ ~gameState.proverbValidation[p + 1].isSolved
    /\ ~gameState.hasFailedGame
    /\ isComplete(p)

\* word k, placed in p, carries the canonical token of its own position
matchesOwnPosition(k, p) ==
    LET toks == tokensOf(p)
        pos  == words[k].placement.positionIndex
    IN  /\ pos + 1 \in DOMAIN toks
        /\ toLowerCase(words[k].text) = toLowerCase(toks[pos + 1])

\* C16: an effective validateProverb(p) locks, without moving it, exactly each
\* word placed in p whose text equals (case-insensitively) the canonical token
\* at that word's own positionIndex, and sets placement = null with isLocked =
\* false for exactly each word placed in p whose text does not match the token
\* at its positionIndex; words not placed in p are untouched.
C16_ValidateProverbJudgesByPosition ==
    \A p \in ProverbIndices :
        effective(p) =>
            \A k \in WordIndices :
                LET after == proverbValidated(p).allWords[k]
                IN  IF k \in placedIn(p)
                    THEN IF matchesOwnPosition(k, p)
                         THEN after = [words[k] EXCEPT !.isLocked = TRUE]
                         ELSE after = [words[k] EXCEPT !.placement = null,
                                                       !.isLocked = FALSE]
                    ELSE after = words[k]

\* C17: an effective validateProverb(p) sets entry p to {isSolved: (no placed
\* word was incorrect), isValidated: true}, leaves every other proverb's
\* entry unchanged, and sets isCompleted to (every proverb's entry is
\* solved); when every position of p holds the correct token the result is
\* {isSolved: true, isValidated: true} and every word placed in p is locked.
C17_ValidateProverbEntry ==
    \A p \in ProverbIndices :
        effective(p) =>
            LET after == proverbValidated(p)
                noneIncorrect == \A k \in placedIn(p) : matchesOwnPosition(k, p)
            IN  /\ after.proverbValidation[p + 1]
                     = [isSolved |-> noneIncorrect, isValidated |-> TRUE]
                /\ \A q \in ProverbIndices :
                      q # p => after.proverbValidation[q + 1]
                                 = gameState.proverbValidation[q + 1]
                /\ after.isCompleted = allFoundSolved(after)
                /\ (\A i \in 0..(Len(tokensOf(p)) - 1) :
                        \E k \in placedIn(p) :
                            /\ words[k].placement.positionIndex = i
                            /\ matchesOwnPosition(k, p))
                      => /\ after.proverbValidation[p + 1]
                              = [isSolved |-> TRUE, isValidated |-> TRUE]
                         /\ \A k \in placedIn(p) : after.allWords[k].isLocked

\* C18: validateProverb never changes validationAttempts,
\* totalValidationAttempts or hasFailedGame, for any proverb index and any
\* reachable state.
C18_ValidateProverbSparesBudget ==
    \A p \in ProverbIndices :
        /\ proverbValidated(p).validationAttempts = gameState.validationAttempts
        /\ proverbValidated(p).totalValidationAttempts
              = gameState.totalValidationAttempts
        /\ proverbValidated(p).hasFailedGame = gameState.hasFailedGame

\* one attempt is left after two validations, and validateProverb acts on a
\* completely filled proverb, evicting at least one word
C18_Witness ==
    /\ Loaded
    /\ gameState.validationAttempts = 1
    /\ gameState.totalValidationAttempts = 2
    /\ \E p \in ProverbIndices :
          /\ effective(p)
          /\ \E k \in placedIn(p) : proverbValidated(p).allWords[k].placement = null

(***************************************************************************)
(* Hints.                                                                  *)
(***************************************************************************)
\* C19: the first useHint(p) on a proverb p that is not marked solved only
\* adds p to usedHints and increments totalHintsUsed by 1: no word's
\* placement or lock, wordHintsUsed and no validation entry changes; and
\* wordHintsUsed[p] > 0 holds only in states where p is in usedHints.
C19_FirstHintOnlyReveals ==
    /\ \A p \in ProverbIndices :
          (p \notin gameState.usedHints /\ ~gameState.proverbValidation[p + 1].isSolved)
            => handleUseHint(gameState, p)
                 = [gameState EXCEPT !.usedHints = @ \cup {p},
                                     !.totalHintsUsed = @ + 1]
    /\ \A p \in DOMAIN gameState.wordHintsUsed :
          gameState.wordHintsUsed[p] > 0 => p \in gameState.usedHints

\* a proverb has had no hint yet and is not solved, while the other proverb
\* has had a word placed by a hint, some entry is validated and an unlocked
\* word is on the board
C19_Witness ==
    /\ Loaded
    /\ \E p \in ProverbIndices :
          /\ p \notin gameState.usedHints
          /\ ~gameState.proverbValidation[p + 1].isSolved
          /\ \E k \in WordIndices : words[k].sourceProverbIndex = p
                                      /\ words[k].placement = null
    /\ \E q \in DOMAIN gameState.wordHintsUsed : gameState.wordHintsUsed[q] > 0
    /\ \E q \in ProverbIndices : gameState.proverbValidation[q + 1].isValidated
    /\ \E k \in WordIndices : ~words[k].isLocked /\ words[k].placement # null

\* floor(0.8 * wordCount(p)): the largest c with 10 c <= 8 wordCount(p)
hintCap(p) ==
    LET n == Len(tokensOf(p))
    IN  CHOOSE c \in 0..n : 10 * c <= 8 * n /\ 8 * n < 10 * (c + 1)

\* the state after n consecutive useHint(p) calls
RECURSIVE hinted(_, _, _)
hinted(state, p, n) ==
    IF n = 0 THEN state ELSE handleUseHint(hinted(state, p, n - 1), p)

\* the board as loaded: no hint has been used, the anchors are the only
\* locked words and the only words on the board
freshBoard ==
    /\ gameState.usedHints = {}
    /\ gameState.totalHintsUsed = 0
    /\ \A k \in WordIndices :
          /\ words[k].isLocked = words[k].isFixedByLength
          /\ (words[k].placement # null) = words[k].isFixedByLength

\* C20: in every reachable state wordHintsUsed[p] <= floor(0.8 * wordCount(p))
\* for every proverb p, and a useHint(p) issued when wordHintsUsed[p] has
\* reached that cap leaves the state unchanged; for a 9-word proverb exactly
\* 7 level-2 hints succeed when no other operation intervenes.
C20_HintCap ==
    \A p \in ProverbIndices :
        /\ wordHintsOf(gameState, p) <= hintCap(p)
        /\ wordHintsOf(gameState, p) = hintCap(p)
              => handleUseHint(gameState, p) = gameState
        /\ (Len(tokensOf(p)) = 9 /\ freshBoard)
              => /\ \A n \in 1..7 :
                       /\ hinted(gameState, p, 1 + n) # hinted(gameState, p, n)
                       /\ wordHintsOf(hinted(gameState, p, 1 + n), p) = n
                 /\ hinted(gameState, p, 9) = hinted(gameState, p, 8)

\* a 9-word proverb has received its meaning hint and 7 word hints in a row:
\* all 9 slots are filled, 8 hints are counted, and one more changes nothing
C20_Witness ==
    /\ Loaded
    /\ \E p \in ProverbIndices :
          /\ Len(tokensOf(p)) = 9
          /\ wordHintsOf(gameState, p) = 7
          /\ gameState.totalHintsUsed = 8
          /\ Cardinality(placedIn(p)) = 9
          /\ handleUseHint(gameState, p) = gameState

\* the state after useHint(p)
hintUsed(p) == handleUseHint(gameState, p)

\* slot (p, i) holds no word
slotEmpty(p, i) ==
    \A k \in WordIndices :
        words[k].placement = null \/ words[k].placement # Placement(p, i)

\* the words a hint for p can place: unplaced, unlocked, from proverb p
hintCandidates(p) ==
    { k \in WordIndices : /\ words[k].sourceProverbIndex = p
                            /\ words[k].placement = null
                            /\ ~words[k].isLocked }

\* wordHintsUsed[p] of a state, 0 when the map has no entry
hintsCounted(state, p) ==
    IF p \in DOMAIN state.wordHintsUsed THEN state.wordHintsUsed[p] ELSE 0

\* C21: a level-2 useHint(p) that is not a no-op changes the placement of
\* exactly one word (a previously unplaced, unlocked word with
\* sourceProverbIndex = p, now placed in a previously empty slot of p),
\* increments wordHintsUsed[p] and totalHintsUsed by exactly 1 each, and
\* resets every proverb's validation entry to {false, false}.
C21_WordHintEffect ==
    \A p \in ProverbIndices :
        LET after   == handleUseHint(gameState, p)
            changed == { k \in WordIndices : after.allWords[k] # words[k] }
        IN  (p \in gameState.usedHints /\ after # gameState) =>
                /\ Len(after.allWords) = Len(words)
                /\ Cardinality(changed) = 1
                /\ \A k \in changed :
                      /\ k \in hintCandidates(p)
                      /\ \E i \in 0..(Len(tokensOf(p)) - 1) :
                            /\ slotEmpty(p, i)
                            /\ after.allWords[k]
                                  = [words[k] EXCEPT !.placement = Placement(p, i)]
                /\ hintsCounted(after, p) = hintsCounted(gameState, p) + 1
                /\ after.totalHintsUsed = gameState.totalHintsUsed + 1
                /\ allUnvalidated(after)

\* a word hint has just placed a word in a proverb while the other proverb
\* holds an unlocked word and an attempt has been spent
C21_Witness ==
    /\ Loaded
    /\ gameState.totalValidationAttempts > 0
    /\ \E p \in ProverbIndices :
          /\ hintsCounted(gameState, p) = 1
          /\ gameState.totalHintsUsed = 2
          /\ \E k \in placedIn(p) : ~words[k].isLocked
          /\ \E q \in ProverbIndices :
                q # p /\ \E k \in placedIn(q) : ~words[k].isLocked
    /\ allUnvalidated(gameState)

\* the positions of p that hold no word
emptyPositions(p) == { i \in 0..(Len(tokensOf(p)) - 1) : slotEmpty(p, i) }

\* the least element of a non-empty set of numbers
least(S) == CHOOSE x \in S : \A y \in S : x <= y

C29_HintRefusals ==
    \A p \in ProverbIndices :
        /\ gameState.proverbValidation[p + 1].isSolved
              => hintUsed(p) = gameState
        /\ (p \in gameState.usedHints
               /\ (hintCandidates(p) = {} \/ emptyPositions(p) = {}))
              => hintUsed(p) = gameState

\* a proverb whose meaning is revealed has had no word hint, is not solved
\* and has a word of its own in the pool, but all its positions are filled;
\* another proverb is marked solved without having had a hint
C29_Witness ==
    /\ Loaded
    /\ \E p \in ProverbIndices :
          /\ p \in gameState.usedHints
          /\ hintsCounted(gameState, p) = 0
          /\ ~gameState.proverbValidation[p + 1].isSolved
          /\ hintCandidates(p) # {}
          /\ emptyPositions(p) = {}
    /\ \E q \in ProverbIndices :
          /\ gameState.proverbValidation[q + 1].isSolved
          /\ q \notin gameState.usedHints

(***************************************************************************)
(* Reset.                                                                  *)
(***************************************************************************)
\* the state after reset
resetDone == handleReset(gameState)

\* C22: after reset, every word that was unlocked has placement = null, and
\* every word that was locked keeps its isLocked flag and exactly the
\* placement it had before reset.
C22_ResetKeepsLockedWords ==
    LET after == handleReset(gameState)
    IN  /\ Len(after.allWords) = Len(words)
        /\ \A k \in WordIndices :
              IF words[k].isLocked
              THEN /\ after.allWords[k].isLocked
                   /\ after.allWords[k].placement = words[k].placement
              ELSE after.allWords[k].placement = null

\* the board holds an anchor, a word locked by validateProverb and an
\* unlocked word, so reset has words of each kind to treat
C22_Witness ==
    /\ \E k \in WordIndices :
          words[k].isLocked /\ words[k].isFixedByLength /\ words[k].placement # null
    /\ \E k \in WordIndices :
          words[k].isLocked /\ ~words[k].isFixedByLength /\ words[k].placement # null
    /\ \E k \in WordIndices : ~words[k].isLocked /\ words[k].placement # null
    /\ resetDone # gameState

\* C23: after reset, from any reachable state, validationAttempts = 3,
\* totalValidationAttempts = 0, hasFailedGame = false, isCompleted = false,
\* usedHints and wordHintsUsed are empty, totalHintsUsed = 0, every
\* validation entry is {false, false}, and selectedWordId and
\* selectedPlaceholder are null.
C23_ResetRestoresSession ==
    LET after == handleReset(gameState)
    IN  /\ after.validationAttempts = 3
        /\ after.totalValidationAttempts = 0
        /\ ~after.hasFailedGame
        /\ ~after.isCompleted
        /\ after.usedHints = {}
        /\ DOMAIN after.wordHintsUsed = {}
        /\ after.totalHintsUsed = 0
        /\ \A p \in 1..Len(after.proverbValidation) :
              after.proverbValidation[p] = [isSolved |-> FALSE, isValidated |-> FALSE]
        /\ Len(after.proverbValidation) = Len(gameState.proverbValidation)
        /\ after.selectionState.selectedWordId = nullId
        /\ after.selectionState.selectedPlaceholder = null

\* the game has failed after three validations, hints of both levels were
\* used and a proverb is marked solved: reset has every counter to restore
C23_Witness ==
    /\ gameState.hasFailedGame
    /\ gameState.validationAttempts = 0
    /\ gameState.totalValidationAttempts = 3
    /\ gameState.usedHints # {}
    /\ \E p \in DOMAIN gameState.wordHintsUsed : gameState.wordHintsUsed[p] > 0
    /\ \E p \in 1..Len(gameState.proverbValidation) :
          gameState.proverbValidation[p].isSolved

selection == gameState.selectionState

\* state `after` differs from the current state in selectionState at most
sameOutsideSelection(after) ==
    [after EXCEPT !.selectionState = selection] = gameState

\* C25: selectWord, selectPlaceholder and clearSelection change nothing
\* outside selectionState (the words, the validation entries, the completion
\* and failure flags, the hint and attempt counters stay as they are), and
\* none of the three changes autoFocusTarget.
C25_SelectionFrame ==
    /\ \A selectedId \in WordIds \cup {nullId} :
          LET after == handleSelectWord(gameState, selectedId)
          IN  /\ sameOutsideSelection(after)
              /\ after.selectionState.autoFocusTarget = selection.autoFocusTarget
    /\ \A slot \in Slots :
          LET after == handleSelectPlaceholder(gameState, slot.proverbIndex,
                                               slot.positionIndex)
          IN  /\ sameOutsideSelection(after)
              /\ after.selectionState.autoFocusTarget = selection.autoFocusTarget
    /\ LET after == handleClearSelection(gameState)
       IN  /\ sameOutsideSelection(after)
           /\ after.selectionState.autoFocusTarget = selection.autoFocusTarget

\* a placeholder other than the auto-focus target is selected on a board
\* that has been played on: words placed, a hint used, an attempt spent
C25_Witness ==
    /\ selection.selectedPlaceholder # null
    /\ selection.autoFocusTarget # null
    /\ selection.autoFocusTarget # selection.selectedPlaceholder
    /\ \E k \in WordIndices : ~words[k].isLocked /\ words[k].placement # null
    /\ gameState.totalHintsUsed > 0
    /\ gameState.validationAttempts < 3
    /\ handleClearSelection(gameState) # gameState

\* the fields of a word that identify it
identityOf(word) ==
    [ id                 |-> word.id,
      text               |-> word.text,
      sourceProverbIndex |-> word.sourceProverbIndex,
      originalIndex      |-> word.originalIndex,
      isFixedByLength    |-> word.isFixedByLength ]

pool == [k \in WordIndices |-> identityOf(words[k])]

distinctIds ==
    \A j, k \in WordIndices : words[j].id = words[k].id => j = k

\* C26: word ids are pairwise distinct in every reachable state, and once a
\* puzzle is loaded no operation (moveWord, removeWord, validateAll,
\* validateProverb, useHint, reset, the selection operations) changes the
\* number of words or any word's id, text, sourceProverbIndex, originalIndex
\* or isFixedByLength: anchors are not drawn again.
C26_PoolIsFixed ==
    /\ []distinctIds
    /\ [][Loaded => pool' = pool]_vars

\* two proverbs, a word locked as an anchor and a word locked by
\* validateProverb, after hints and a reset
C26_Witness ==
    /\ Loaded
    /\ proverbCount = 2
    /\ \E k \in WordIndices : words[k].isLocked /\ words[k].isFixedByLength
    /\ \E k \in WordIndices : words[k].isLocked /\ ~words[k].isFixedByLength
    /\ gameState.usedHints # {}
    /\ selection.selectedWordId # nullId

\* C27: moveWord(w, p, i) with w unlocked sets w.placement to (p, i), sets to
\* null the placement of every unlocked word other than w that was at (p, i),
\* and leaves unchanged every other word's placement, every word's isLocked,
\* the hint counters, the attempt counters, hasFailedGame, isCompleted and
\* selectionState.
C27_MoveWordFrame ==
    \A id \in UnlockedIds, slot \in Slots :
        LET p     == slot.proverbIndex
            i     == slot.positionIndex
            after == handleMoveWord(gameState, id, p, i)
        IN  /\ Len(after.allWords) = Len(words)
            /\ \A k \in WordIndices :
                  /\ after.allWords[k].isLocked = words[k].isLocked
                  /\ after.allWords[k].placement =
                        IF words[k].id = id THEN Placement(p, i)
                        ELSE IF ~words[k].isLocked /\ words[k].placement = Placement(p, i)
                             THEN null
                             ELSE words[k].placement
            /\ after.usedHints = gameState.usedHints
            /\ after.wordHintsUsed = gameState.wordHintsUsed
            /\ after.totalHintsUsed = gameState.totalHintsUsed
            /\ after.validationAttempts = gameState.validationAttempts
            /\ after.totalValidationAttempts = gameState.totalValidationAttempts
            /\ after.hasFailedGame = gameState.hasFailedGame
            /\ after.isCompleted = gameState.isCompleted
            /\ after.selectionState = selection

\* the selected word can be moved onto a slot that another unlocked word
\* holds, with hints used and attempts spent
C27_Witness ==
    /\ \E j, k \in WordIndices :
          /\ j # k
          /\ ~words[j].isLocked /\ ~words[k].isLocked
          /\ words[k].placement # null
          /\ selection.selectedWordId = words[j].id
          /\ handleMoveWord(gameState, words[j].id,
                            words[k].placement.proverbIndex,
                            words[k].placement.positionIndex).allWords[k].placement
                = null
    /\ selection.autoFocusTarget # null
    /\ gameState.totalHintsUsed > 0
    /\ gameState.validationAttempts < 3

\* C30: selectedWordId and selectedPlaceholder are never both non-null:
\* selectWord with a non-null id clears selectedPlaceholder, selectPlaceholder
\* clears selectedWordId, and clearSelection and reset clear both.
C30_SelectionExclusive ==
    /\ selection.selectedWordId = nullId \/ selection.selectedPlaceholder = null
    /\ \A selectedId \in WordIds :
          LET after == handleSelectWord(gameState, selectedId).selectionState
          IN  after.selectedWordId = selectedId /\ after.selectedPlaceholder = null
    /\ \A slot \in Slots :
          LET after == handleSelectPlaceholder(gameState, slot.proverbIndex,
                                               slot.positionIndex).selectionState
          IN  after.selectedWordId = nullId /\ after.selectedPlaceholder = slot
    /\ LET after == handleClearSelection(gameState).selectionState
       IN  after.selectedWordId = nullId /\ after.selectedPlaceholder = null
    /\ LET after == handleReset(gameState).selectionState
       IN  after.selectedWordId = nullId /\ after.selectedPlaceholder = null

\* a word is selected where a placeholder can be selected next, and a
\* placeholder is selected where a word can be selected next
C30_Witness ==
    /\ selection.selectedPlaceholder # null
    /\ \E selectedId \in WordIds :
          handleSelectWord(gameState, selectedId).selectionState.selectedPlaceholder
            # selection.selectedPlaceholder
    /\ \E k \in WordIndices : ~words[k].isLocked /\ words[k].placement # null

\* slot s comes before slot t in (proverb, position) order
slotBefore(s, t) ==
    \/ s.proverbIndex < t.proverbIndex
    \/ s.proverbIndex = t.proverbIndex /\ s.positionIndex < t.positionIndex

\* the slots of the board that hold no word
emptySlots == { s \in Slots : slotEmpty(s.proverbIndex, s.positionIndex) }

\* the number of steps from slot `from` to slot s in the cyclic order of the
\* slots: forward through the board and on from its start
stepsFrom(from, s) ==
    LET rank(t) == Cardinality({ u \in Slots : slotBefore(u, t) })
    IN  (rank(s) - rank(from) + Cardinality(Slots)) % Cardinality(Slots)

\* the member of the non-empty set S of slots that the cyclic order reaches
\* first after slot `from`
nearestAfter(from, S) ==
    CHOOSE s \in S : \A t \in S : stepsFrom(from, s) <= stepsFrom(from, t)

\* C24: findNextEmptySlot(p, i) for a valid slot (p, i) returns the first
\* slot holding no word in the cyclic scan order (the rest of p, the later
\* proverbs, then the earlier proverbs and the positions of p before i); it
\* returns null exactly when no slot other than (p, i) is empty and never
\* returns an occupied slot; findNextEmptySlot(-1, -1) returns the first
\* empty slot in (proverb, position) order, null when the board is full.
C24_NextEmptySlot ==
    LET empties == emptySlots
    IN  /\ \A from \in Slots :
              LET found  == findNextEmptySlot(gameState, from.proverbIndex,
                                              from.positionIndex)
                  others == empties \ {from}
              IN  /\ (found = null) <=> (others = {})
                  /\ found # null => found \in empties
                  /\ others # {} => found = nearestAfter(from, others)
        /\ LET first == findNextEmptySlot(gameState, -1, -1)
           IN  IF empties = {} THEN first = null
               ELSE /\ first \in empties
                    /\ \A s \in empties : ~slotBefore(s, first)

\* one slot of the middle proverb is the only empty one: the scan from the
\* last proverb and the scan from the slot after it both wrap around to it,
\* and the scan from the slot itself finds nothing
C24_Witness ==
    /\ Loaded
    /\ proverbCount = 3
    /\ emptySlots = {Placement(1, 0)}
    /\ findNextEmptySlot(gameState, 2, 0) = Placement(1, 0)
    /\ findNextEmptySlot(gameState, 1, 1) = Placement(1, 0)
    /\ findNextEmptySlot(gameState, 1, 0) = null
    /\ selection.autoFocusTarget = Placement(1, 0)

(***************************************************************************)
(* The session flags and counters.                                         *)
(***************************************************************************)
\* C32: in every reachable state, isCompleted = true implies that every
\* proverb's validation entry has isSolved = true, also after a moveWord that
\* follows a successful validateAll.
C32_CompletedMeansAllSolved ==
    gameState.isCompleted => allFoundSolved(gameState)

\* the words at slot (p, i), as indices of the word list
wordsAt(p, i) == { k \in WordIndices : words[k].placement = Placement(p, i) }

\* slot (p, i) holds exactly one word, and it carries the canonical token
slotCorrect(p, i) ==
    /\ Cardinality(wordsAt(p, i)) = 1
    /\ \A k \in wordsAt(p, i) :
          toLowerCase(words[k].text) = toLowerCase(tokensOf(p)[i + 1])

\* C33: in every reachable state, whenever the validation entry of proverb p
\* has isSolved = true, each position 0 .. wordCount(p) - 1 of p holds exactly
\* one word and the text of that word equals, case-insensitively, the
\* canonical token of the position.
C33_SolvedMarkIsTrue ==
    \A p \in ProverbIndices :
        gameState.proverbValidation[p + 1].isSolved
            => \A i \in 0..(Len(tokensOf(p)) - 1) : slotCorrect(p, i)

\* C34: isCompleted and hasFailedGame are never both true.
C34_CompletedOrFailed ==
    ~(gameState.isCompleted /\ gameState.hasFailedGame)

\* the puzzle was completed with the last attempt, and the game did not fail
C34_Witness ==
    /\ gameState.isCompleted
    /\ gameState.validationAttempts = 0
    /\ gameState.totalValidationAttempts = 3
    /\ allFoundSolved(gameState)

\* C40: in every reachable state, validationAttempts = 0 together with
\* isCompleted = false implies hasFailedGame = true.
C40_OutOfAttemptsMeansFailed ==
    (gameState.validationAttempts = 0 /\ ~gameState.isCompleted)
        => gameState.hasFailedGame

\* C35: in every reachable state 0 <= validationAttempts <= 3 and
\* validationAttempts + totalValidationAttempts = 3, and validationAttempts
\* never increases under any operation other than reset or a puzzle load.
C35_AttemptBudget ==
    /\ [](/\ gameState.validationAttempts \in 0..3
          /\ gameState.validationAttempts + gameState.totalValidationAttempts = 3)
    /\ [][gameState'.validationAttempts > gameState.validationAttempts
            => \/ gameState' = handleReset(gameState)
               \/ gameState.puzzleData = null]_vars

\* every attempt is spent and the board can still be played on
C35_Witness ==
    /\ gameState.validationAttempts = 0
    /\ gameState.totalValidationAttempts = 3
    /\ handleValidate(gameState) = gameState
    /\ \E id \in WordIds, slot \in Slots :
          handleMoveWord(gameState, id, slot.proverbIndex, slot.positionIndex)
            # gameState

\* the sum of f over the set S of arguments
RECURSIVE sumOver(_, _)
sumOver(f, S) ==
    IF S = {} THEN 0
    ELSE LET x == CHOOSE y \in S : TRUE
         IN  f[x] + sumOver(f, S \ {x})

\* C36: in every reachable state totalHintsUsed equals the size of usedHints
\* plus the sum over all proverbs of wordHintsUsed[p].
C36_HintTotal ==
    gameState.totalHintsUsed
        = Cardinality(gameState.usedHints)
            + sumOver(gameState.wordHintsUsed, DOMAIN gameState.wordHintsUsed)

\* both meanings are revealed and a word hint was taken in each proverb
C36_Witness ==
    /\ Cardinality(gameState.usedHints) = 2
    /\ DOMAIN gameState.wordHintsUsed = {0, 1}
    /\ \A p \in {0, 1} : gameState.wordHintsUsed[p] = 1
    /\ gameState.totalHintsUsed = 4

\* state `after` has the locks of the current state
locksKept(after) ==
    /\ Len(after.allWords) = Len(words)
    /\ \A k \in WordIndices : after.allWords[k].isLocked = words[k].isLocked

\* C37: isLocked is monotone: a locked word stays locked under every
\* operation, reset included; moveWord, removeWord, validateAll, useHint and
\* reset change no word's isLocked, so that after initialization only
\* validateProverb locks a word, and a word placed by a hint stays unlocked.
C37_LocksAreMonotone ==
    /\ \A id \in WordIds :
          /\ locksKept(handleRemoveWord(gameState, id))
          /\ \A slot \in Slots :
                locksKept(handleMoveWord(gameState, id, slot.proverbIndex,
                                         slot.positionIndex))
    /\ locksKept(handleValidate(gameState))
    /\ locksKept(handleReset(gameState))
    /\ \A p \in ProverbIndices :
          /\ locksKept(handleUseHint(gameState, p))
          /\ LET after == handleValidateProverb(gameState, p)
             IN  /\ Len(after.allWords) = Len(words)
                 /\ \A k \in WordIndices :
                       words[k].isLocked => after.allWords[k].isLocked

\* a word locked by validateProverb, a word placed by a hint and still
\* unlocked, and a reset that would change the board
C37_Witness ==
    /\ \E k \in WordIndices : words[k].isLocked /\ ~words[k].isFixedByLength
    /\ \E p \in DOMAIN gameState.wordHintsUsed :
          /\ gameState.wordHintsUsed[p] > 0
          /\ \E k \in WordIndices :
                /\ ~words[k].isLocked
                /\ words[k].placement # null
                /\ words[k].placement.proverbIndex = p
    /\ handleReset(gameState).allWords # words

\* C38: from the initial state, in a run made only of useHint calls, every
\* placed word sits at its own slot, placement = (sourceProverbIndex,
\* originalIndex): the fallback to a wrong candidate is not taken.
C38_HintsPlaceWordsCorrectly ==
    \A k \in WordIndices :
        words[k].placement # null
            => words[k].placement
                 = Placement(words[k].sourceProverbIndex, words[k].originalIndex)

\* hints have placed words in both proverbs, next to an anchor
C38_Witness ==
    /\ Loaded
    /\ \A p \in ProverbIndices :
          /\ p \in DOMAIN gameState.wordHintsUsed
          /\ gameState.wordHintsUsed[p] >= 1
          /\ \E k \in WordIndices :
                /\ ~words[k].isLocked
                /\ words[k].placement # null
                /\ words[k].sourceProverbIndex = p
    /\ \E p \in ProverbIndices : gameState.wordHintsUsed[p] >= 2
    /\ \E k \in WordIndices : words[k].isFixedByLength


\* C39: with each gesture of the view taken whole (tray-word tap, slot tap or
\* drop, hint button, validate-proverb button, reset), an auto-focus target
\* that is not null designates a slot that holds no word.
C39_AutoFocusTargetIsEmpty ==
    Loaded /\ gameState.selectionState.autoFocusTarget # null =>
        ~wordAtPosition(words,
                        gameState.selectionState.autoFocusTarget.proverbIndex,
                        gameState.selectionState.autoFocusTarget.positionIndex)


(***************************************************************************)
(* Batches of calls.                                                       *)
(***************************************************************************)
\* the operations applied one after the other, each to the result of the one
\* before
RECURSIVE inIssueOrder(_, _)
inIssueOrder(state, calls) ==
    IF calls = <<>> THEN state
    ELSE inIssueOrder(updaterOn(state, Head(calls)), Tail(calls))

====
